---- MODULE Spec2Model ----
(***************************************************************************)
(* Authentication core of syntx: sign-up, sign-in, refresh, the             *)
(* token_required gate, logout, the JWT helpers of utils/jwt_utils.py and  *)
(* the validators of utils/validation.py, as a state machine over the user *)
(* table, the in-memory blacklist, the MX cache and the requests in flight.*)
(***************************************************************************)
EXTENDS Integers, Sequences, FiniteSets, TLC

VARIABLES
    now,            \* the wall clock, in whole seconds
    users,          \* rows of the users table
    next_id,        \* the autoincrement counter of users.id
    MX_DNS_CACHE,   \* utils/validation.py: domain -> cached lookup outcome
    blacklist,      \* utils/jwt_utils.py: the set of logged-out token strings
    issued,         \* token strings handed out in responses so far
    pc,             \* per worker: where its current request stands
    req,            \* per worker: the locals of the request in flight
    resp,           \* the last response sent
    served,         \* the number of requests taken up so far
    call            \* the last direct application of a function of utils/

vars == <<now, users, next_id, MX_DNS_CACHE, blacklist, issued, pc, req, resp, served, call>>

----------------------------------------------------------------------------
(* Bounds of the exploration *)

\* how many consecutive seconds are explored after 0 and after each lifetime
MaxSkew == 1
\* user ids the token-service specification issues tokens for
MaxUid == 2
\* how many requests the service takes up in one run
MaxRequests == 4
\* how many characters of a password candidate are chosen freely
MaxCore == 4
\* how many calls of the validators one process makes
MaxCalls == 4

(* Program constants *)

\* generate_token(user_id, expires_in=3600)
ACCESS_TTL == 3600
\* timedelta(days=7), in seconds
REFRESH_TTL == 604800
\* len(password) < 8
MIN_PASSWORD_LEN == 8
\* len(password) > 20
MAX_PASSWORD_LEN == 20

SECRET_KEY == "JWT_SECRET_KEY"

\* the worker threads that handle requests concurrently
Workers == {"w1", "w2"}

\* the instants the clock of the service visits: the start, and the seconds
\* around the expiry of an access token issued at the start
Instants == {0} \cup {ACCESS_TTL - 1 + k : k \in 0..MaxSkew}

----------------------------------------------------------------------------
(* JWT: jwt.encode / jwt.decode with HS256 *)

\* the HMAC of a payload under a key: equal exactly for equal key and payload
Sign(user_id, exp, key) == <<key, user_id, exp>>

\* jwt.encode({"user_id": user_id, "exp": exp}, key, algorithm="HS256")
jwt_encode(user_id, exp, key) ==
    [user_id |-> user_id, exp |-> exp, sig |-> Sign(user_id, exp, key)]

\* the absent token (None, or the empty string after the split)
NoToken == [user_id |-> 0, exp |-> 0, sig |-> <<"", 0, 0>>]

NoPayload == [user_id |-> 0, exp |-> 0]

\* jwt.decode that lets a token live through the second of its exp claim
jwt_decode_expiry_off_by_one(token, key, t) ==
    IF token.sig # Sign(token.user_id, token.exp, key)
    THEN [err |-> "InvalidTokenError", payload |-> NoPayload]
    ELSE IF token.exp < t
         THEN [err |-> "ExpiredSignatureError", payload |-> NoPayload]
         ELSE [err |-> "", payload |-> [user_id |-> token.user_id, exp |-> token.exp]]

\* jwt.decode(token, key, algorithms=["HS256"]) at instant t: the signature is
\* verified first, then the exp claim (exp <= now raises ExpiredSignatureError)
jwt_decode(token, key, t) ==
    IF token.sig # Sign(token.user_id, token.exp, key)
    THEN [err |-> "InvalidTokenError", payload |-> NoPayload]
    ELSE IF token.exp <= t
         THEN [err |-> "ExpiredSignatureError", payload |-> NoPayload]
         ELSE [err |-> "", payload |-> [user_id |-> token.user_id, exp |-> token.exp]]

\* generate_token(user_id) called at instant t
generate_token(user_id, t) == jwt_encode(user_id, t + ACCESS_TTL, SECRET_KEY)

\* generate_refresh_token(user_id) called at instant t
generate_refresh_token(user_id, t) == jwt_encode(user_id, t + REFRESH_TTL, SECRET_KEY)

\* verify_token's None
None == NoPayload

\* verify_token decoding with a key that is not the signing key
verify_token_wrong_key(token, t) ==
    LET d == jwt_decode(token, "SECRET_KEY", t)
    IN  IF d.err = "" THEN d.payload ELSE None

\* verify_token(token) called at instant t: the payload, or None
verify_token(token, t) ==
    LET d == jwt_decode(token, SECRET_KEY, t)
    IN  IF d.err = "" THEN d.payload ELSE None

----------------------------------------------------------------------------
(* utils/validation.py *)

\* strings are sequences of character codes (ord)
Str_GoodPass == <<71, 111, 111, 100, 80, 97, 115, 115, 49, 33>>   \* "GoodPass1!"
Str_weak     == <<97, 98, 99>>                                    \* "abc"
Str_short1A  == <<115, 104, 111, 114, 116, 49, 65, 33>>               \* "short1A!"
Str_7chars   == <<115, 104, 111, 114, 116, 49, 65>>                   \* "short1A"

\* special_sym = ["!", "@", "#", "$", "%", "^", "&", "*", "-"]
special_sym == {33, 64, 35, 36, 37, 94, 38, 42, 45}

\* validate_password that stops at the first rule the password violates
validate_password_first_error_only(password) ==
    LET has_digit  == \E i \in 1..Len(password) : 48 <= password[i] /\ password[i] <= 57
        has_upper  == \E i \in 1..Len(password) : 65 <= password[i] /\ password[i] <= 90
        has_lower  == \E i \in 1..Len(password) : 97 <= password[i] /\ password[i] <= 122
        has_symbol == \E i \in 1..Len(password) : password[i] \in special_sym
        errors ==
            IF Len(password) < MIN_PASSWORD_LEN
            THEN <<"Password must be at least 8 characters long">>
            ELSE IF Len(password) > MAX_PASSWORD_LEN
            THEN <<"Password should not be more than 20 characters long">>
            ELSE IF ~has_digit
            THEN <<"Password must contain at least one digit">>
            ELSE IF ~has_upper
            THEN <<"Password must contain at least one uppercase letter">>
            ELSE IF ~has_lower
            THEN <<"Password must contain at least one lowercase letter">>
            ELSE IF ~has_symbol
            THEN <<"Password must contain at least one special symbol">>
            ELSE <<>>
    IN  [val |-> errors = <<>>, errors |-> errors]

\* validate_password whose minimum length is exclusive: len(password) <= 8
validate_password_min_exclusive(password) ==
    LET has_digit  == \E i \in 1..Len(password) : 48 <= password[i] /\ password[i] <= 57
        has_upper  == \E i \in 1..Len(password) : 65 <= password[i] /\ password[i] <= 90
        has_lower  == \E i \in 1..Len(password) : 97 <= password[i] /\ password[i] <= 122
        has_symbol == \E i \in 1..Len(password) : password[i] \in special_sym
        errors ==
            (IF Len(password) <= MIN_PASSWORD_LEN
             THEN <<"Password must be at least 8 characters long">> ELSE <<>>)
         \o (IF Len(password) > MAX_PASSWORD_LEN
             THEN <<"Password should not be more than 20 characters long">> ELSE <<>>)
         \o (IF ~has_digit
             THEN <<"Password must contain at least one digit">> ELSE <<>>)
         \o (IF ~has_upper
             THEN <<"Password must contain at least one uppercase letter">> ELSE <<>>)
         \o (IF ~has_lower
             THEN <<"Password must contain at least one lowercase letter">> ELSE <<>>)
         \o (IF ~has_symbol
             THEN <<"Password must contain at least one special symbol">> ELSE <<>>)
    IN  [val |-> errors = <<>>, errors |-> errors]

\* validate_password(password): (val, errors)
validate_password(password) ==
    LET has_digit  == \E i \in 1..Len(password) : 48 <= password[i] /\ password[i] <= 57
        has_upper  == \E i \in 1..Len(password) : 65 <= password[i] /\ password[i] <= 90
        has_lower  == \E i \in 1..Len(password) : 97 <= password[i] /\ password[i] <= 122
        has_symbol == \E i \in 1..Len(password) : password[i] \in special_sym
        errors ==
            (IF Len(password) < MIN_PASSWORD_LEN
             THEN <<"Password must be at least 8 characters long">> ELSE <<>>)
         \o (IF Len(password) > MAX_PASSWORD_LEN
             THEN <<"Password should not be more than 20 characters long">> ELSE <<>>)
         \o (IF ~has_digit
             THEN <<"Password must contain at least one digit">> ELSE <<>>)
         \o (IF ~has_upper
             THEN <<"Password must contain at least one uppercase letter">> ELSE <<>>)
         \o (IF ~has_lower
             THEN <<"Password must contain at least one lowercase letter">> ELSE <<>>)
         \o (IF ~has_symbol
             THEN <<"Password must contain at least one special symbol">> ELSE <<>>)
        val == /\ ~(Len(password) < MIN_PASSWORD_LEN)
               /\ ~(Len(password) > MAX_PASSWORD_LEN)
               /\ has_digit /\ has_upper /\ has_lower /\ has_symbol
    IN  [val |-> val, errors |-> errors]

\* an e-mail address is its local part and its domain; a string without a
\* well-formed "@domain" has the empty domain
Domains == {"ok.com", "nomx.com"}

\* re.match(EMAIL_REGEX, email) is not None
is_valid_format(email) == email.local # "" /\ email.domain \in Domains

\* what dns.resolver.resolve(domain, "MX") can give: the records, or a
\* DNSException (NXDOMAIN, NoAnswer, timeout), which is cached as None
resolve_outcomes(domain) == IF domain = "ok.com" THEN {"records"} ELSE {"None"}

\* get_mx_records that stores the records it finds and not the None of a
\* DNSException
get_mx_records_not_caching_failures(domain, cache, answer) ==
    IF cache[domain] # "absent"
    THEN [value |-> cache[domain], cache |-> cache, queried |-> FALSE]
    ELSE [value |-> answer,
          cache |-> IF answer = "records"
                    THEN [cache EXCEPT ![domain] = answer] ELSE cache,
          queried |-> TRUE]

\* get_mx_records(domain) against a cache, where answer is what the resolver
\* gives if asked: the value returned, the cache left, and whether
\* dns.resolver.resolve was called
get_mx_records(domain, cache, answer) ==
    IF cache[domain] # "absent"
    THEN [value |-> cache[domain], cache |-> cache, queried |-> FALSE]
    ELSE [value |-> answer, cache |-> [cache EXCEPT ![domain] = answer],
          queried |-> TRUE]

\* validate_email_address(email, check_mx=True) against a cache, where lib_ok is
\* whether email_validator(email) returns instead of raising EmailNotValidError
\* and answer is what the resolver gives if asked
validate_email_address(email, cache, lib_ok, answer) ==
    IF ~is_valid_format(email)
    THEN [valid |-> FALSE, cache |-> cache, queried |-> FALSE]
    ELSE IF ~lib_ok
    THEN [valid |-> FALSE, cache |-> cache, queried |-> FALSE]
    ELSE LET mx == get_mx_records(email.domain, cache, answer)
         IN  [valid |-> mx.value = "records", cache |-> mx.cache,
              queried |-> mx.queried]

\* the outcomes of email_validator(email) for a well-formed address: it accepts
\* a deliverable domain, and a domain without MX records when its fallback
\* finds an address record
email_validator_outcomes(email) ==
    IF email.domain = "ok.com" THEN {TRUE} ELSE {TRUE, FALSE}

----------------------------------------------------------------------------
(* app/models/user_model.py *)

\* bcrypt.gensalt()
Salts == {"salt1"}

\* bcrypt.hashpw(password, salt): the salt is embedded in the hash
hashpw(password, salt) == [salt |-> salt, digest |-> <<"bcrypt", salt, password>>]

\* User.set_password(password) with the salt gensalt() drew
set_password(password, salt) == hashpw(password, salt)

\* bcrypt.checkpw(password, hashed_password): the hash of the password is
\* recomputed with the salt read off the stored hash and compared with it; a
\* stored string that does not begin with a bcrypt salt raises
\* ValueError("Invalid salt")
checkpw(password, hashed_password) ==
    IF hashed_password.salt \notin Salts
    THEN [raised |-> "ValueError", value |-> FALSE]
    ELSE [raised |-> "",
          value |-> hashpw(password, hashed_password.salt) = hashed_password]

\* User.check_password(password) of a row with the given hash: what it returns
\* (value), or the exception that leaves it (raised)
check_password(password_hash, password) == checkpw(password, password_hash)

\* User(username, email, password, role), before the insert assigns the id
User(id, username, email, password, role, salt) ==
    [id |-> id, username |-> username, email |-> email,
     password_hash |-> set_password(password, salt), role |-> role]

\* User.query.filter_by(id=user_id).first() is not None
user_by_id(table, user_id) == {u \in table : u.id = user_id}

\* User.query.filter_by(username=...).first() or User.query.filter_by(email=...).first()
user_exists(table, username, email) ==
    \/ \E u \in table : u.username = username
    \/ \E u \in table : u.email = email

\* a users table whose email column lacks unique=True
violates_unique_username_only(table, row) ==
    \E u \in table : u.username = row.username

\* the unique constraints of the users table, as the insert enforces them
violates_unique(table, row) ==
    \/ \E u \in table : u.username = row.username
    \/ \E u \in table : u.email = row.email

----------------------------------------------------------------------------
(* Requests and responses *)

\* usernames are free text: sign_up puts no rule on data["username"], so one
\* may have the form of an address
Usernames == {"alice", "bob@ok.com"}

E_alice == [local |-> "alice", domain |-> "ok.com"]
E_bob   == [local |-> "bob", domain |-> "ok.com"]
E_nomx  == [local |-> "carol", domain |-> "nomx.com"]
E_bad   == [local |-> "not-an-address", domain |-> ""]
Emails  == {E_alice, E_bob, E_nomx, E_bad}

Passwords == {Str_GoodPass, Str_weak}

AllKeys == {"username", "email", "password"}

\* what request.get_json() gives for a POST /signup: a JSON object with some of
\* the keys, or nothing at all (json |-> FALSE)
SignUpBodies ==
    [json : {TRUE}, keys : {AllKeys}, username : Usernames, email : Emails,
     password : Passwords]
    \cup [json : {TRUE}, keys : {AllKeys \ {k} : k \in AllKeys} \cup {{}},
          username : {"alice"}, email : {E_alice}, password : {Str_GoodPass}]
    \cup [json : {FALSE}, keys : {{}},
          username : {"alice"}, email : {E_alice}, password : {Str_GoodPass}]

\* a token signed with a key that is not the server's
ForeignToken == jwt_encode(1, REFRESH_TTL + ACCESS_TTL, "not-the-secret")

\* an issued token whose exp was pushed back, with its signature left as it was
Tampered(token) == [token EXCEPT !.exp = token.exp + REFRESH_TTL]

\* the token strings a client can put after "Bearer "
Presentable == issued \cup {Tampered(t) : t \in issued} \cup {ForeignToken}

\* the Authorization header: absent, a single word, or "Bearer <token>"
Headers ==
    [auth : {FALSE}, words : {0}, token : {NoToken}]
    \cup [auth : {TRUE}, words : {1}, token : {NoToken}]
    \cup [auth : {TRUE}, words : {2}, token : Presentable]

\* request.headers["Authorization"].split(" ")[1], or None
bearer_token(headers) ==
    IF headers.auth /\ headers.words > 1 THEN headers.token ELSE NoToken

NoReq == [username |-> "", email |-> E_bad, password |-> <<>>,
          token |-> NoToken, user_id |-> 0]

\* a response: the route it comes from, the HTTP status, the message, the
\* user_id and the tokens of the body, and the token of the request it answers
Response(route, status, message, access_token, refresh_token, token) ==
    [route |-> route, status |-> status, message |-> message, user_id |-> 0,
     access_token |-> access_token, refresh_token |-> refresh_token,
     token |-> token]

NoResp == Response("", 0, "", NoToken, NoToken, NoToken)

----------------------------------------------------------------------------
(* app/api/auth_routes.py: POST /signup *)

\* sign_up with the password validated before the email address
sign_up_checks_password_first(data, table, cache, lib_ok, answer) ==
    IF ~data.json \/ data.keys = {} \/ "username" \notin data.keys
       \/ "email" \notin data.keys \/ "password" \notin data.keys
    THEN [done |-> TRUE, status |-> 200, cache |-> cache,
          message |-> "Missing required fields: 'username', 'email' or 'password'"]
    ELSE IF ~validate_password(data.password).val
    THEN [done |-> TRUE, status |-> 400, cache |-> cache,
          message |-> "Password validation failed"]
    ELSE LET ve == validate_email_address(data.email, cache, lib_ok, answer)
         IN  IF ~ve.valid
             THEN [done |-> TRUE, status |-> 400, cache |-> ve.cache,
                   message |-> "Invalid email address"]
             ELSE IF user_exists(table, data.username, data.email)
             THEN [done |-> TRUE, status |-> 400, cache |-> ve.cache,
                   message |-> "User with this email or username already exists"]
             ELSE [done |-> FALSE, status |-> 0, cache |-> ve.cache, message |-> ""]

\* sign_up up to the duplicate check, on the parsed body: the response when a
\* check fails (done), or the go-ahead to create the user, and the MX cache left
sign_up_checks(data, table, cache, lib_ok, answer) ==
    IF ~data.json \/ data.keys = {} \/ "username" \notin data.keys
       \/ "email" \notin data.keys \/ "password" \notin data.keys
    THEN [done |-> TRUE, status |-> 200, cache |-> cache,
          message |-> "Missing required fields: 'username', 'email' or 'password'"]
    ELSE LET ve == validate_email_address(data.email, cache, lib_ok, answer)
         IN  IF ~ve.valid
             THEN [done |-> TRUE, status |-> 400, cache |-> ve.cache,
                   message |-> "Invalid email address"]
             ELSE IF ~validate_password(data.password).val
             THEN [done |-> TRUE, status |-> 400, cache |-> ve.cache,
                   message |-> "Password validation failed"]
             ELSE IF user_exists(table, data.username, data.email)
             THEN [done |-> TRUE, status |-> 400, cache |-> ve.cache,
                   message |-> "User with this email or username already exists"]
             ELSE [done |-> FALSE, status |-> 0, cache |-> ve.cache, message |-> ""]

\* request.get_json() and the checks of sign_up, for one request of worker w
sign_up(w) ==
    /\ pc[w] = "idle"
    /\ served < MaxRequests
    /\ served' = served + 1
    /\ \E data \in SignUpBodies :
       \E lib_ok \in email_validator_outcomes(data.email) :
       \E answer \in resolve_outcomes(data.email.domain) :
         LET c == sign_up_checks(data, users, MX_DNS_CACHE, lib_ok, answer)
         IN  /\ MX_DNS_CACHE' = c.cache
             /\ IF c.done
                THEN /\ resp' = Response("/signup", c.status, c.message, NoToken, NoToken, NoToken)
                     /\ UNCHANGED <<pc, req>>
                ELSE /\ pc' = [pc EXCEPT ![w] = "sign_up_save"]
                     /\ req' = [req EXCEPT ![w] =
                            [NoReq EXCEPT !.username = data.username,
                                          !.email = data.email,
                                          !.password = data.password]]
                     /\ UNCHANGED resp
    /\ UNCHANGED <<now, users, next_id, blacklist, issued, call>>

\* save_to_db(model): db.session.add and commit; the insert fails with an
\* IntegrityError when a unique column of the row is already taken
save_to_db(table, row) ==
    IF violates_unique(table, row)
    THEN [error |-> "IntegrityError", table |-> table]
    ELSE [error |-> "", table |-> table \cup {row}]

\* sign_up from User(...) to its response: the user is built and saved, the two
\* tokens are generated and the 201 is sent; an IntegrityError of the commit
\* is caught nowhere and leaves the handler
sign_up_save(w) ==
    /\ pc[w] = "sign_up_save"
    /\ \E salt \in Salts :
         LET new_user == User(next_id, req[w].username, req[w].email,
                              req[w].password, "user", salt)
             saved == save_to_db(users, new_user)
             access_token == generate_token(new_user.id, now)
             refresh_token == generate_refresh_token(new_user.id, now)
         IN  /\ users' = saved.table
             /\ IF saved.error # ""
                THEN /\ resp' = Response("/signup", 500, saved.error, NoToken, NoToken, NoToken)
                     /\ UNCHANGED <<next_id, issued>>
                ELSE /\ next_id' = next_id + 1
                     /\ issued' = issued \cup {access_token, refresh_token}
                     /\ resp' = Response("/signup", 201, "User created successfully",
                                     access_token, refresh_token, NoToken)
    /\ pc' = [pc EXCEPT ![w] = "idle"]
    /\ req' = [req EXCEPT ![w] = NoReq]
    /\ UNCHANGED <<now, MX_DNS_CACHE, blacklist, served, call>>

----------------------------------------------------------------------------
(* utils/jwt_utils.py: token_required, and POST /logout behind it *)

\* token_required with the two except clauses in the other order, so that an
\* expired token is answered as an invalid one
gate_decode_expired_as_invalid(headers, t) ==
    LET token == bearer_token(headers)
        d == jwt_decode(token, SECRET_KEY, t)
    IN  IF token = NoToken
        THEN [done |-> TRUE, status |-> 403, message |-> "Token is missing!",
              payload |-> NoPayload]
        ELSE IF d.err # ""
        THEN [done |-> TRUE, status |-> 403, message |-> "Token is invalid!",
              payload |-> NoPayload]
        ELSE [done |-> FALSE, status |-> 0, message |-> "", payload |-> d.payload]

\* token_required decoding with options={"verify_exp": False}
gate_decode_ignoring_expiry(headers, t) ==
    LET token == bearer_token(headers)
        d == jwt_decode(token, SECRET_KEY, t)
    IN  IF token = NoToken
        THEN [done |-> TRUE, status |-> 403, message |-> "Token is missing!",
              payload |-> NoPayload]
        ELSE IF d.err = "InvalidTokenError"
        THEN [done |-> TRUE, status |-> 403, message |-> "Token is invalid!",
              payload |-> NoPayload]
        ELSE [done |-> FALSE, status |-> 0, message |-> "",
              payload |-> [user_id |-> token.user_id, exp |-> token.exp]]

\* token_required decoding with options={"verify_signature": False}, which
\* reads the payload of any well-formed token
gate_decode_without_signature(headers, t) ==
    LET token == bearer_token(headers)
    IN  IF token = NoToken
        THEN [done |-> TRUE, status |-> 403, message |-> "Token is missing!",
              payload |-> NoPayload]
        ELSE [done |-> FALSE, status |-> 0, message |-> "",
              payload |-> [user_id |-> token.user_id, exp |-> token.exp]]

\* token_required up to jwt.decode, at instant t: the 403 when the token is
\* missing, expired or invalid, or the decoded payload
gate_decode(headers, t) ==
    LET token == bearer_token(headers)
        d == jwt_decode(token, SECRET_KEY, t)
    IN  IF token = NoToken
        THEN [done |-> TRUE, status |-> 403, message |-> "Token is missing!",
              payload |-> NoPayload]
        ELSE IF d.err = "ExpiredSignatureError"
        THEN [done |-> TRUE, status |-> 403, message |-> "Token has expired!",
              payload |-> NoPayload]
        ELSE IF d.err = "InvalidTokenError"
        THEN [done |-> TRUE, status |-> 403, message |-> "Token is invalid!",
              payload |-> NoPayload]
        ELSE [done |-> FALSE, status |-> 0, message |-> "", payload |-> d.payload]

\* token_required without its blacklist test
gate_check_without_blacklist(token, user_id, revoked, table) ==
    IF user_by_id(table, user_id) = {}
    THEN [done |-> TRUE, status |-> 404, message |-> "User not found!"]
    ELSE [done |-> FALSE, status |-> 0, message |-> ""]

\* token_required that looks the user up before it tests the blacklist
gate_check_lookup_first(token, user_id, revoked, table) ==
    IF user_by_id(table, user_id) = {}
    THEN [done |-> TRUE, status |-> 404, message |-> "User not found!"]
    ELSE IF token \in revoked
    THEN [done |-> TRUE, status |-> 403, message |-> "Token has been blacklisted!"]
    ELSE [done |-> FALSE, status |-> 0, message |-> ""]

\* token_required after jwt.decode: the blacklist test and the user lookup
gate_check(token, user_id, revoked, table) ==
    IF token \in revoked
    THEN [done |-> TRUE, status |-> 403, message |-> "Token has been blacklisted!"]
    ELSE IF user_by_id(table, user_id) = {}
    THEN [done |-> TRUE, status |-> 404, message |-> "User not found!"]
    ELSE [done |-> FALSE, status |-> 0, message |-> ""]

\* a request to POST /logout arrives at worker w: the header is read and the
\* token decoded
token_required(w) ==
    /\ pc[w] = "idle"
    /\ served < MaxRequests
    /\ served' = served + 1
    /\ \E headers \in Headers :
         LET g == gate_decode(headers, now)
         IN  IF g.done
             THEN /\ resp' = Response("/logout", g.status, g.message, NoToken, NoToken,
                                  bearer_token(headers))
                  /\ UNCHANGED <<pc, req>>
             ELSE /\ pc' = [pc EXCEPT ![w] = "gate_check"]
                  /\ req' = [req EXCEPT ![w] =
                         [NoReq EXCEPT !.token = bearer_token(headers),
                                       !.user_id = g.payload.user_id]]
                  /\ UNCHANGED resp
    /\ UNCHANGED <<now, users, next_id, MX_DNS_CACHE, blacklist, issued, call>>

\* the rest of the try block of token_required, then func(current_user)
token_required_check(w) ==
    /\ pc[w] = "gate_check"
    /\ LET g == gate_check(req[w].token, req[w].user_id, blacklist, users)
       IN  IF g.done
           THEN /\ resp' = Response("/logout", g.status, g.message, NoToken, NoToken, req[w].token)
                /\ pc' = [pc EXCEPT ![w] = "idle"]
                /\ req' = [req EXCEPT ![w] = NoReq]
           ELSE /\ pc' = [pc EXCEPT ![w] = "logout"]
                /\ UNCHANGED <<req, resp>>
    /\ UNCHANGED <<now, users, next_id, MX_DNS_CACHE, blacklist, issued, served, call>>

\* a logout that revokes every token issued to the user of the header's token
logout_revoking_all_tokens(w) ==
    /\ pc[w] = "logout"
    /\ blacklist' = blacklist \cup {t \in issued : t.user_id = req[w].user_id}
    /\ resp' = Response("/logout", 200, "Successfully logged out", NoToken, NoToken, req[w].token)
    /\ pc' = [pc EXCEPT ![w] = "idle"]
    /\ req' = [req EXCEPT ![w] = NoReq]
    /\ UNCHANGED <<now, users, next_id, MX_DNS_CACHE, issued, served, call>>

\* logout(current_user): the token of the header goes into the blacklist
logout(w) ==
    /\ pc[w] = "logout"
    /\ blacklist' = blacklist \cup {req[w].token}
    /\ resp' = Response("/logout", 200, "Successfully logged out", NoToken, NoToken, req[w].token)
    /\ pc' = [pc EXCEPT ![w] = "idle"]
    /\ req' = [req EXCEPT ![w] = NoReq]
    /\ UNCHANGED <<now, users, next_id, MX_DNS_CACHE, issued, served, call>>

----------------------------------------------------------------------------
(* app/api/auth_routes.py: POST /signin *)

\* the email column as the text it holds
email_str(email) ==
    IF email.domain = "" THEN email.local ELSE email.local \o "@" \o email.domain

SignInKeys == {"username_or_email", "password"}

\* the identifiers a client signs in with: usernames, addresses, and one that
\* nobody has
Identifiers ==
    Usernames \cup {email_str(E_alice), email_str(E_bob)} \cup {"nobody"}

\* what request.get_json() gives for a POST /signin
SignInBodies ==
    [json : {TRUE}, keys : {SignInKeys}, username_or_email : Identifiers,
     password : Passwords]
    \cup [json : {TRUE}, keys : {{"username_or_email"}, {"password"}, {}},
          username_or_email : {"alice"}, password : {Str_GoodPass}]
    \cup [json : {FALSE}, keys : {{}},
          username_or_email : {"alice"}, password : {Str_GoodPass}]

\* the rows a lookup that compares the identifier with the username only finds
find_by_username_only(table, identifier) ==
    {u \in table : u.username = identifier}

\* User.find_by_username_or_email(identifier), before .first(): the rows whose
\* username or email is the identifier
find_by_username_or_email(table, identifier) ==
    {u \in table : u.username = identifier \/ email_str(u.email) = identifier}

\* the None of a query without rows
NoUser == [id |-> 0, username |-> "", email |-> E_bad,
           password_hash |-> hashpw(<<>>, ""), role |-> ""]

\* query.first(): some row of the result, or None
query_first(rows) == IF rows = {} THEN {NoUser} ELSE rows

\* sign_in on the parsed body, with the row the lookup gave, at instant t: the
\* response, or the exception of check_password that leaves the handler
sign_in_response(data, user, t) ==
    IF ~data.json \/ data.keys = {} \/ "username_or_email" \notin data.keys
       \/ "password" \notin data.keys
    THEN Response("/signin", 400,
                  "Missing required fields: 'username_or_email' or 'password'",
                  NoToken, NoToken, NoToken)
    ELSE IF user = NoUser
    THEN Response("/signin", 404, "User not found", NoToken, NoToken, NoToken)
    ELSE LET checked == check_password(user.password_hash, data.password)
         IN  IF checked.raised # ""
             THEN Response("/signin", 500, checked.raised, NoToken, NoToken, NoToken)
             ELSE IF ~checked.value
             THEN Response("/signin", 400, "Password validation failed",
                           NoToken, NoToken, NoToken)
             ELSE [Response("/signin", 200, "Login successful",
                            generate_token(user.id, t),
                            generate_refresh_token(user.id, t), NoToken)
                   EXCEPT !.user_id = user.id]

\* a request to POST /signin is handled by worker w
sign_in(w) ==
    /\ pc[w] = "idle"
    /\ served < MaxRequests
    /\ served' = served + 1
    /\ \E data \in SignInBodies :
       \E user \in query_first(find_by_username_or_email(users, data.username_or_email)) :
         LET r == sign_in_response(data, user, now)
         IN  /\ resp' = r
             /\ issued' = issued \cup ({r.access_token, r.refresh_token} \ {NoToken})
    /\ UNCHANGED <<now, users, next_id, MX_DNS_CACHE, blacklist, pc, req, call>>

----------------------------------------------------------------------------
(* app/api/auth_routes.py: POST /refresh *)

\* a string that is not three base64 segments
MalformedToken == [user_id |-> 0, exp |-> 0, sig |-> <<"not.a.jwt", 0, 0>>]

\* what request.get_json() gives for a POST /refresh: an object with the key
\* "refresh_token" (its value may be the empty string), an object without it,
\* or no object at all (json |-> FALSE)
RefreshBodies ==
    [json : {TRUE}, has_key : {TRUE},
     token : Presentable \cup {MalformedToken, NoToken}]
    \cup [json : {TRUE}, has_key : {FALSE}, token : {NoToken}]
    \cup [json : {FALSE}, has_key : {FALSE}, token : {NoToken}]

\* refresh_token that refuses a token string found in the blacklist
refresh_response_checking_blacklist(data, table, revoked, t) ==
    LET presented == IF data.has_key THEN data.token ELSE NoToken
        decode == jwt_decode(presented, SECRET_KEY, t)
    IN  IF ~data.json
        THEN Response("/refresh", 500, "AttributeError", NoToken, NoToken, NoToken)
        ELSE IF presented = NoToken
        THEN Response("/refresh", 400, "Refresh token missing",
                      NoToken, NoToken, presented)
        ELSE IF decode.err = "ExpiredSignatureError"
        THEN Response("/refresh", 401, "Refresh token expired",
                      NoToken, NoToken, presented)
        ELSE IF decode.err = "InvalidTokenError" \/ presented \in revoked
        THEN Response("/refresh", 403, "Invalid token", NoToken, NoToken, presented)
        ELSE IF user_by_id(table, decode.payload.user_id) = {}
        THEN Response("/refresh", 401, "Invalid refresh token",
                      NoToken, NoToken, presented)
        ELSE Response("/refresh", 200, "",
                      generate_token(decode.payload.user_id, t), NoToken, presented)

\* refresh_token on the parsed body, against the users table and the blacklist,
\* at instant t: the response, or the AttributeError of data.get on a body that
\* is no JSON object, which leaves the handler; the blacklist is not read
refresh_response(data, table, revoked, t) ==
    LET presented == IF data.has_key THEN data.token ELSE NoToken
        decode == jwt_decode(presented, SECRET_KEY, t)
    IN  IF ~data.json
        THEN Response("/refresh", 500, "AttributeError", NoToken, NoToken, NoToken)
        ELSE IF presented = NoToken
        THEN Response("/refresh", 400, "Refresh token missing",
                      NoToken, NoToken, presented)
        ELSE IF decode.err = "ExpiredSignatureError"
        THEN Response("/refresh", 401, "Refresh token expired",
                      NoToken, NoToken, presented)
        ELSE IF decode.err = "InvalidTokenError"
        THEN Response("/refresh", 403, "Invalid token", NoToken, NoToken, presented)
        ELSE IF user_by_id(table, decode.payload.user_id) = {}
        THEN Response("/refresh", 401, "Invalid refresh token",
                      NoToken, NoToken, presented)
        ELSE Response("/refresh", 200, "",
                      generate_token(decode.payload.user_id, t), NoToken, presented)

\* a request to POST /refresh is handled by worker w
refresh_token(w) ==
    /\ pc[w] = "idle"
    /\ served < MaxRequests
    /\ served' = served + 1
    /\ \E data \in RefreshBodies :
         LET r == refresh_response(data, users, blacklist, now)
         IN  /\ resp' = r
             /\ issued' = issued \cup ({r.access_token} \ {NoToken})
    /\ UNCHANGED <<now, users, next_id, MX_DNS_CACHE, blacklist, pc, req, call>>

----------------------------------------------------------------------------
(* The service *)

\* time passes
Tick ==
    /\ \E t \in Instants : t > now /\ now' = t
    /\ UNCHANGED <<users, next_id, MX_DNS_CACHE, blacklist, issued, pc, req, resp, served, call>>

NoCall == [op |-> "", user_id |-> 0, token |-> NoToken, at |-> 0, result |-> None]

Init ==
    /\ now = 0
    /\ users = {}
    /\ next_id = 1
    /\ MX_DNS_CACHE = [d \in Domains |-> "absent"]
    /\ blacklist = {}
    /\ issued = {}
    /\ pc = [w \in Workers |-> "idle"]
    /\ req = [w \in Workers |-> NoReq]
    /\ resp = NoResp
    /\ call = NoCall
    /\ served = 0

Next ==
    \/ Tick
    \/ \E w \in Workers : sign_up(w)
    \/ \E w \in Workers : sign_up_save(w)
    \/ \E w \in Workers : token_required(w)
    \/ \E w \in Workers : token_required_check(w)
    \/ \E w \in Workers : logout(w)

Spec == Init /\ [][Next]_vars

\* the four routes of auth_blueprint behind a single synchronous worker, which
\* takes one request at a time
NextSequential ==
    \/ Tick
    \/ sign_up("w1")
    \/ sign_up_save("w1")
    \/ sign_in("w1")
    \/ refresh_token("w1")
    \/ token_required("w1")
    \/ token_required_check("w1")
    \/ logout("w1")

SpecSequential == Init /\ [][NextSequential]_vars

\* POST /signup alone, handled by the two workers concurrently
NextSignUp ==
    \/ Tick
    \/ \E w \in Workers : sign_up(w)
    \/ \E w \in Workers : sign_up_save(w)

SpecSignUp == Init /\ [][NextSignUp]_vars

----------------------------------------------------------------------------
(* The token functions of utils/jwt_utils.py, applied directly *)

\* the instants the clock visits here: the first seconds, and the seconds
\* around the end of each of the two lifetimes
TokenInstants ==
    UNION {{b + k : k \in 0..MaxSkew} : b \in {0, ACCESS_TTL, REFRESH_TTL}}
        \cup {ACCESS_TTL - 1, REFRESH_TTL - 1}

token_tick ==
    /\ \E t \in TokenInstants : t > now /\ now' = t
    /\ UNCHANGED <<users, next_id, MX_DNS_CACHE, blacklist, issued, pc, req, resp,
                   served, call>>

\* generate_token(user_id) is called
call_generate_token ==
    /\ \E user_id \in 1..MaxUid :
         call' = [op |-> "generate_token", user_id |-> user_id,
                  token |-> generate_token(user_id, now), at |-> now, result |-> None]
    /\ UNCHANGED <<now, users, next_id, MX_DNS_CACHE, blacklist, issued, pc, req,
                   resp, served>>

\* generate_refresh_token(user_id) is called
call_generate_refresh_token ==
    /\ \E user_id \in 1..MaxUid :
         call' = [op |-> "generate_refresh_token", user_id |-> user_id,
                  token |-> generate_refresh_token(user_id, now), at |-> now,
                  result |-> None]
    /\ UNCHANGED <<now, users, next_id, MX_DNS_CACHE, blacklist, issued, pc, req,
                   resp, served>>

\* verify_token is called on the token generated last, on that token with its
\* exp pushed back, or on a token signed with another key
call_verify_token ==
    /\ call.op \in {"generate_token", "generate_refresh_token"}
    /\ \E token \in {call.token, Tampered(call.token), ForeignToken} :
         call' = [op |-> "verify_token", user_id |-> call.user_id, token |-> token,
                  at |-> now, result |-> verify_token(token, now)]
    /\ UNCHANGED <<now, users, next_id, MX_DNS_CACHE, blacklist, issued, pc, req,
                   resp, served>>

NextTokens ==
    \/ token_tick
    \/ call_generate_token
    \/ call_generate_refresh_token
    \/ call_verify_token

SpecTokens == Init /\ [][NextTokens]_vars

----------------------------------------------------------------------------
(* POST /signin against a users table that holds rows written elsewhere *)

\* a password_hash column that does not begin with a bcrypt salt
InvalidSaltHash == [salt |-> "", digest |-> <<"plain", "", Str_GoodPass>>]

\* a password_hash column that begins with a bcrypt salt and is cut short
TruncatedHash == [salt |-> "salt1", digest |-> <<"cut", "salt1", <<>>>>]

\* the password_hash columns found in the table: one that set_password wrote,
\* and the two malformed ones
StoredHashes ==
    {set_password(Str_GoodPass, "salt1"), InvalidSaltHash, TruncatedHash}

InitStored ==
    /\ now = 0
    /\ \E h \in StoredHashes :
         users = {[id |-> 1, username |-> "alice", email |-> E_alice,
                   password_hash |-> h, role |-> "user"]}
    /\ next_id = 2
    /\ MX_DNS_CACHE = [d \in Domains |-> "absent"]
    /\ blacklist = {}
    /\ issued = {}
    /\ pc = [w \in Workers |-> "idle"]
    /\ req = [w \in Workers |-> NoReq]
    /\ resp = NoResp
    /\ call = NoCall
    /\ served = 0

NextStored ==
    \/ Tick
    \/ sign_in("w1")

SpecStored == InitStored /\ [][NextStored]_vars

----------------------------------------------------------------------------
(* app/api/profile_routes.py: change_password(current_user), applied to a
   stored user *)

Str_NewPass == <<78, 101, 119, 80, 97, 115, 115, 50, 64>>             \* "NewPass2@"

ProfileKeys == {"password", "new_password", "confirm_new_password"}

ProfilePasswords == {Str_GoodPass, Str_NewPass, Str_weak}

\* what request.get_json() gives for a POST /change_password: a JSON object
\* with some of the keys, or nothing at all (json |-> FALSE)
ChangePasswordBodies ==
    [json : {TRUE}, keys : {ProfileKeys}, password : ProfilePasswords,
     new_password : ProfilePasswords, confirm_new_password : ProfilePasswords]
    \cup [json : {TRUE}, keys : {ProfileKeys \ {k} : k \in ProfileKeys} \cup {{}},
          password : {Str_GoodPass}, new_password : {Str_NewPass},
          confirm_new_password : {Str_NewPass}]
    \cup [json : {FALSE}, keys : {{}},
          password : {Str_GoodPass}, new_password : {Str_NewPass},
          confirm_new_password : {Str_NewPass}]

\* change_password that does not test the current password
change_password_response_without_current_check(data, current_user, salt) ==
    LET stored == current_user.password_hash
        unchanged(status, message) ==
            [status |-> status, message |-> message, saved |-> FALSE,
             password_hash |-> stored]
    IN  IF ~data.json \/ data.keys = {} \/ "new_password" \notin data.keys
           \/ "password" \notin data.keys \/ "confirm_new_password" \notin data.keys
        THEN unchanged(400, "Missing required fields: 'new_password' or 'password' or 'confirm_new_password'")
        ELSE IF ~validate_password(data.new_password).val
        THEN unchanged(200, "Invalid password.")
        ELSE IF check_password(stored, data.new_password).raised # ""
        THEN unchanged(500, check_password(stored, data.new_password).raised)
        ELSE IF check_password(stored, data.new_password).value
        THEN unchanged(200, "Password cannot be the same as the current password.")
        ELSE [status |-> 200, message |-> "Password updated successfully.",
              saved |-> TRUE,
              password_hash |-> set_password(data.new_password, salt)]

\* change_password(current_user) on the parsed body: the HTTP status and the
\* message of the response, and the password_hash of the row afterwards, which
\* save_to_db writes (saved) only on the last path; the three later returns
\* are jsonify(...) without a status code, which Flask sends with 200; an
\* exception of check_password leaves the handler
change_password_response(data, current_user, salt) ==
    LET stored == current_user.password_hash
        unchanged(status, message) ==
            [status |-> status, message |-> message, saved |-> FALSE,
             password_hash |-> stored]
    IN  IF ~data.json \/ data.keys = {} \/ "new_password" \notin data.keys
           \/ "password" \notin data.keys \/ "confirm_new_password" \notin data.keys
        THEN unchanged(400, "Missing required fields: 'new_password' or 'password' or 'confirm_new_password'")
        ELSE IF check_password(stored, data.password).raised # ""
        THEN unchanged(500, check_password(stored, data.password).raised)
        ELSE IF ~check_password(stored, data.password).value
        THEN unchanged(400, "Password validation failed")
        ELSE IF ~validate_password(data.new_password).val
        THEN unchanged(200, "Invalid password.")
        ELSE IF check_password(stored, data.new_password).value
        THEN unchanged(200, "Password cannot be the same as the current password.")
        ELSE [status |-> 200, message |-> "Password updated successfully.",
              saved |-> TRUE,
              password_hash |-> set_password(data.new_password, salt)]

\* the record of the calls of change_password: the body and the user of the
\* last call, and the hashes that calls have replaced so far
NoProfileCall ==
    [op |-> "", user_id |-> 0, replaced |-> {},
     data |-> [json |-> FALSE, keys |-> {}, password |-> Str_GoodPass,
               new_password |-> Str_NewPass, confirm_new_password |-> Str_NewPass]]

\* two users have signed up, both with the same password
InitProfile ==
    /\ now = 0
    /\ users = {User(1, "alice", E_alice, Str_GoodPass, "user", "salt1"),
                User(2, "bob", E_bob, Str_GoodPass, "user", "salt1")}
    /\ next_id = 3
    /\ MX_DNS_CACHE = [d \in Domains |-> "absent"]
    /\ blacklist = {}
    /\ issued = {}
    /\ pc = [w \in Workers |-> "idle"]
    /\ req = [w \in Workers |-> NoReq]
    /\ resp = NoResp
    /\ call = NoProfileCall
    /\ served = 0

\* change_password is called with a stored user as current_user, the row that
\* token_required looked up, and a request body
change_password ==
    /\ served < MaxRequests
    /\ served' = served + 1
    /\ \E current_user \in users :
       \E data \in ChangePasswordBodies :
       \E salt \in Salts :
         LET r == change_password_response(data, current_user, salt)
         IN  /\ users' = IF r.saved
                         THEN (users \ {current_user})
                              \cup {[current_user EXCEPT
                                       !.password_hash = r.password_hash]}
                         ELSE users
             /\ resp' = Response("/change_password", r.status, r.message,
                                 NoToken, NoToken, NoToken)
             /\ call' = [op |-> "change_password", user_id |-> current_user.id,
                         data |-> data,
                         replaced |-> IF r.saved
                                      THEN call.replaced
                                           \cup {current_user.password_hash}
                                      ELSE call.replaced]
    /\ UNCHANGED <<now, next_id, MX_DNS_CACHE, blacklist, issued, pc, req>>

NextProfile == change_password

SpecProfile == InitProfile /\ [][NextProfile]_vars

----------------------------------------------------------------------------
(* token_required of utils/jwt_utils.py against any table and any blacklist *)

\* the tokens of a user with id 1 who signed up at second 0
EarlierTokens == {generate_token(1, 0), generate_refresh_token(1, 0)}

\* the gate starts with the row of user 1 stored or gone, and with any set of
\* the strings a client can present in the blacklist
InitGate ==
    /\ now \in Instants
    /\ users \in {{}, {User(1, "alice", E_alice, Str_GoodPass, "user", "salt1")}}
    /\ next_id = 2
    /\ MX_DNS_CACHE = [d \in Domains |-> "absent"]
    /\ issued = EarlierTokens
    /\ blacklist \in SUBSET (EarlierTokens
                              \cup {Tampered(t) : t \in EarlierTokens}
                              \cup {ForeignToken})
    /\ pc = [w \in Workers |-> "idle"]
    /\ req = [w \in Workers |-> NoReq]
    /\ resp = NoResp
    /\ call = NoCall
    /\ served = 0

NextGate ==
    \/ Tick
    \/ token_required("w1")
    \/ token_required_check("w1")
    \/ logout("w1")

SpecGate == InitGate /\ [][NextGate]_vars

----------------------------------------------------------------------------
(* validate_password of utils/validation.py, applied directly *)

\* one character of each class the loop of validate_password tells apart:
\* "1", "A", "a", "!", and the space, which is in no class
CoreChars == {49, 65, 97, 33, 32}

\* the characters at and next to the ends of the ranges of the loop, and the
\* symbols at the ends of special_sym
EdgeChars == {47, 48, 57, 58, 64, 65, 90, 91, 96, 97, 122, 123, 33, 45, 43}

\* the strings of at most n characters of CoreChars
RECURSIVE CoreStrings(_)
CoreStrings(n) ==
    IF n = 0 THEN {<<>>}
    ELSE LET shorter == CoreStrings(n - 1)
         IN  shorter \cup {Append(c, ch) : c \in shorter, ch \in CoreChars}

\* the string s filled up with spaces to n characters
RECURSIVE Padded(_, _)
Padded(s, n) == IF Len(s) >= n THEN s ELSE Padded(Append(s, 32), n)

\* the lengths at and next to the two limits
EdgeLengths ==
    {MIN_PASSWORD_LEN - 1, MIN_PASSWORD_LEN, MAX_PASSWORD_LEN, MAX_PASSWORD_LEN + 1}

\* the candidates validate_password is applied to: free strings as they are and
\* filled up to the lengths around the limits, single characters at the ends of
\* the ranges, and the strings the documentation names
Candidates ==
    CoreStrings(MaxCore)
    \cup {Padded(c, n) : c \in CoreStrings(MaxCore), n \in EdgeLengths}
    \cup {Padded(<<ch>>, n) : ch \in EdgeChars, n \in {1, MIN_PASSWORD_LEN}}
    \cup {Str_GoodPass, Str_weak, Str_short1A, Str_7chars}

NoResult == [val |-> FALSE, errors |-> <<>>]

InitPasswords ==
    /\ now = 0
    /\ users = {}
    /\ next_id = 1
    /\ MX_DNS_CACHE = [d \in Domains |-> "absent"]
    /\ blacklist = {}
    /\ issued = {}
    /\ pc = [w \in Workers |-> "idle"]
    /\ req = [w \in Workers |-> NoReq]
    /\ resp = NoResp
    /\ served = 0
    /\ call \in [op : {"candidate"}, password : Candidates,
                 result : {NoResult}, again : {NoResult}]

\* validate_password(password) is called
call_validate_password ==
    /\ call.op = "candidate"
    /\ call' = [call EXCEPT !.op = "validate_password",
                            !.result = validate_password(call.password)]
    /\ UNCHANGED <<now, users, next_id, MX_DNS_CACHE, blacklist, issued, pc, req,
                   resp, served>>

\* validate_password is called a second time on the same password
call_validate_password_again ==
    /\ call.op = "validate_password"
    /\ call' = [call EXCEPT !.op = "validate_password again",
                            !.again = validate_password(call.password)]
    /\ UNCHANGED <<now, users, next_id, MX_DNS_CACHE, blacklist, issued, pc, req,
                   resp, served>>

NextPasswords ==
    \/ call_validate_password
    \/ call_validate_password_again

SpecPasswords == InitPasswords /\ [][NextPasswords]_vars

----------------------------------------------------------------------------
(* get_mx_records and validate_email_address of utils/validation.py, called
   one after the other in one process *)

\* what dns.resolver.resolve gives at the moment it is asked: the zone of a
\* domain may change between two calls
ResolverAnswers == {"records", "None"}

\* no call yet: per domain, how often the resolver was asked and what it gave
\* the first time
NoMxCall ==
    [op |-> "", domain |-> "", value |-> "absent", valid |-> FALSE, calls |-> 0,
     queries |-> [d \in Domains |-> 0], first |-> [d \in Domains |-> "absent"]]

InitMx ==
    /\ now = 0
    /\ users = {}
    /\ next_id = 1
    /\ MX_DNS_CACHE = [d \in Domains |-> "absent"]
    /\ blacklist = {}
    /\ issued = {}
    /\ pc = [w \in Workers |-> "idle"]
    /\ req = [w \in Workers |-> NoReq]
    /\ resp = NoResp
    /\ served = 0
    /\ call = NoMxCall

\* the record of a call for the domain that did or did not ask the resolver
Logged(op, domain, value, valid, queried, answer) ==
    [op |-> op, domain |-> domain, value |-> value, valid |-> valid,
     calls |-> call.calls + 1,
     queries |-> IF queried
                 THEN [call.queries EXCEPT ![domain] = @ + 1] ELSE call.queries,
     first |-> IF queried /\ call.first[domain] = "absent"
               THEN [call.first EXCEPT ![domain] = answer] ELSE call.first]

\* get_mx_records(domain) is called
call_get_mx_records ==
    /\ call.calls < MaxCalls
    /\ \E domain \in Domains : \E answer \in ResolverAnswers :
         LET mx == get_mx_records(domain, MX_DNS_CACHE, answer)
         IN  /\ MX_DNS_CACHE' = mx.cache
             /\ call' = Logged("get_mx_records", domain, mx.value,
                               mx.value = "records", mx.queried, answer)
    /\ UNCHANGED <<now, users, next_id, blacklist, issued, pc, req, resp, served>>

\* validate_email_address(email, check_mx=True) is called
call_validate_email_address ==
    /\ call.calls < MaxCalls
    /\ \E email \in Emails : \E lib_ok \in BOOLEAN : \E answer \in ResolverAnswers :
         LET ve == validate_email_address(email, MX_DNS_CACHE, lib_ok, answer)
         IN  /\ MX_DNS_CACHE' = ve.cache
             /\ call' = Logged("validate_email_address", email.domain,
                               IF email.domain \in Domains
                               THEN ve.cache[email.domain] ELSE "absent",
                               ve.valid, ve.queried, answer)
    /\ UNCHANGED <<now, users, next_id, blacklist, issued, pc, req, resp, served>>

NextMx ==
    \/ call_get_mx_records
    \/ call_validate_email_address

SpecMx == InitMx /\ [][NextMx]_vars

----------------------------------------------------------------------------
(* Properties *)

\* a token string whose signature verifies under the server's key
SignedByServer(token) == token.sig = Sign(token.user_id, token.exp, SECRET_KEY)

\* worker w takes up a request to a gated route in this step and the gate
\* answers it before the blacklist test
GateRefusesAtDecode(w) ==
    /\ pc[w] = "idle" /\ pc'[w] = "idle" /\ served' = served + 1
    /\ resp'.message \in {"Token is missing!", "Token has expired!", "Token is invalid!"}

\* worker w takes up a request to a gated route in this step and its token decodes
GatePassesDecode(w) == pc[w] = "idle" /\ pc'[w] = "gate_check"

\* the gate of worker w answers the request itself after the blacklist test
GateRefusesAtCheck(w) == pc[w] = "gate_check" /\ pc'[w] = "idle"

\* the gate of worker w hands the request to the wrapped handler
HandlerInvoked(w) == pc[w] = "gate_check" /\ pc'[w] = "logout"

\* C1: the gate hands a request to the wrapped handler exactly when the bearer
\* token's signature verifies under the secret key, its expiry is in the
\* future, the token string is not in the blacklist and its subject is a
\* stored user; in every other case the gate answers the request itself
C1_GateAdmitsExactlyValidTokens ==
    [][\A w \in Workers :
        /\ GatePassesDecode(w) =>
              /\ req'[w].token # NoToken
              /\ SignedByServer(req'[w].token)
              /\ req'[w].token.exp > now
              /\ req'[w].user_id = req'[w].token.user_id
        /\ GateRefusesAtDecode(w) =>
              \/ resp'.token = NoToken
              \/ ~SignedByServer(resp'.token)
              \/ resp'.token.exp <= now
        /\ HandlerInvoked(w) =>
              /\ req[w].token \notin blacklist
              /\ \E u \in users : u.id = req[w].token.user_id
        /\ GateRefusesAtCheck(w) =>
              \/ req[w].token \in blacklist
              \/ ~\E u \in users : u.id = req[w].token.user_id
        /\ pc'[w] = "logout" => pc[w] \in {"gate_check", "logout"}
      ]_vars

\* a request has passed the gate and its handler is about to run
C1_Witness == \E w \in Workers : pc[w] = "logout"

\* C2: a token string stays in the blacklist once logout has added it, and a
\* gate check that finds the string there, from whichever worker and however
\* the requests interleave, answers 403 and never invokes the handler
C2_RevokedNeverAcceptedAgain ==
    [][/\ blacklist \subseteq blacklist'
       /\ \A w \in Workers :
            (pc[w] = "gate_check" /\ req[w].token \in blacklist /\ pc'[w] # pc[w]) =>
                /\ pc'[w] = "idle"
                /\ resp'.status = 403
                /\ resp'.token = req[w].token
       /\ \A w \in Workers :
            (pc[w] # "logout" /\ pc'[w] = "logout") => req'[w].token \notin blacklist
      ]_vars

\* one gate check of a revoked token was refused while another check of the
\* same token string is in flight on the other worker
C2_Witness ==
    /\ resp.status = 403
    /\ resp.message = "Token has been blacklisted!"
    /\ resp.token \in blacklist
    /\ \E w \in Workers : pc[w] = "gate_check" /\ req[w].token = resp.token

\* C3, as claimed: every answer of the gate to a token string that is in the
\* blacklist carries the blacklisted reason, at any later time
C3_AlwaysBlacklistedReason ==
    [][\A w \in Workers :
        /\ (GateRefusesAtDecode(w) /\ resp'.token \in blacklist) =>
              resp'.message = "Token has been blacklisted!"
        /\ (pc[w] = "gate_check" /\ req[w].token \in blacklist /\ pc'[w] # pc[w]) =>
              resp'.message = "Token has been blacklisted!"
      ]_vars

\* C3, amended: a gate check of a token string that is in the blacklist is
\* refused with 403; the reason is the blacklisted one when the gate decodes
\* the token before its expiry, and the expired one when it decodes it at or
\* after its expiry; it is never the invalid reason
C3_BlacklistedReasonUntilExpiry ==
    [][\A w \in Workers :
        /\ (GateRefusesAtDecode(w) /\ resp'.token \in blacklist) =>
              /\ resp'.status = 403
              /\ resp'.message = "Token has expired!"
              /\ resp'.token.exp <= now
        /\ (GatePassesDecode(w) /\ req'[w].token \in blacklist) =>
              req'[w].token.exp > now
        /\ (pc[w] = "gate_check" /\ req[w].token \in blacklist /\ pc'[w] # pc[w]) =>
              /\ pc'[w] = "idle"
              /\ resp'.status = 403
              /\ resp'.message = "Token has been blacklisted!"
      ]_vars

\* a logged-out token was presented again in the last second before its expiry
\* and refused as blacklisted
C3_Witness ==
    /\ resp.token \in blacklist
    /\ resp.status = 403
    /\ resp.message = "Token has been blacklisted!"
    /\ now = resp.token.exp - 1

\* the token verify_token was applied to is one generate_token or
\* generate_refresh_token returned for call.user_id
Genuine ==
    /\ call.op = "verify_token"
    /\ \E t \in TokenInstants :
         call.token \in {generate_token(call.user_id, t),
                         generate_refresh_token(call.user_id, t)}

\* C4: a token expires ACCESS_TTL (refresh: REFRESH_TTL) seconds after the
\* second it was generated in; verify_token accepts it at every second before
\* its expiry and returns None at its expiry second and at every later one
C4_ExpiryBoundaryExclusive ==
    /\ call.op = "generate_token" => call.token.exp = call.at + ACCESS_TTL
    /\ call.op = "generate_refresh_token" => call.token.exp = call.at + REFRESH_TTL
    /\ Genuine => ((call.result # None) <=> (call.at < call.token.exp))

\* a generated token was verified exactly at its expiry second and rejected
C4_Witness == Genuine /\ call.at = call.token.exp /\ call.result = None

\* C5: verify_token of a token generated for uid, before the token's expiry,
\* returns a payload whose user_id is uid
C5_RoundTripSubject ==
    (Genuine /\ call.at < call.token.exp) => call.result.user_id = call.user_id

\* a refresh token generated for user 2 was verified after the access lifetime
\* and before its own expiry
C5_Witness ==
    /\ Genuine
    /\ call.user_id = 2
    /\ call.at > ACCESS_TTL
    /\ call.at < call.token.exp
    /\ call.result = [user_id |-> 2, exp |-> call.token.exp]

\* C6, as claimed: verify_token returns None for every token string that is in
\* the blacklist
C6_VerifyRejectsBlacklisted == \A token \in blacklist : verify_token(token, now) = None

\* C7, as claimed: a sign-up that gives a username or an email of a stored
\* user is answered with HTTP 400 by the checks of sign_up
C7_DuplicateAnswered400 ==
    \A data \in SignUpBodies :
    \A lib_ok \in email_validator_outcomes(data.email) :
    \A answer \in resolve_outcomes(data.email.domain) :
        (\/ "username" \in data.keys /\ \E u \in users : u.username = data.username
         \/ "email" \in data.keys /\ \E u \in users : u.email = data.email) =>
            LET c == sign_up_checks(data, users, MX_DNS_CACHE, lib_ok, answer)
            IN  c.done /\ c.status = 400

\* C8: no two rows of the users table share a username, an email or an id
C8_UsernamesAndEmailsUnique ==
    \A u1 \in users : \A u2 \in users :
        u1 # u2 => /\ u1.username # u2.username
                   /\ u1.email # u2.email
                   /\ u1.id # u2.id

\* two sign-ups with a common username or email both passed the duplicate
\* check; one was committed and the insert of the other was refused
C8_Witness ==
    /\ resp.status = 500
    /\ resp.message = "IntegrityError"
    /\ users # {}

\* C9, as claimed: the answer to a sign-up that lacks a required field has the
\* HTTP status 400
C9_MissingFieldsAnswered400 ==
    resp.message = "Missing required fields: 'username', 'email' or 'password'"
        => resp.status = 400

\* C10, as claimed: a sign-up that has passed the four checks adds exactly one
\* row with the given username and email, the role "user" and a hash of the
\* password, and answers 201 with two tokens whose subject is the new id
C10_PassedChecksCreatesUser ==
    [][\A w \in Workers :
        (pc[w] = "sign_up_save" /\ pc'[w] = "idle") =>
            /\ resp'.status = 201
            /\ \E u \in users' :
                 /\ users' = users \cup {u}
                 /\ u \notin users
                 /\ u.username = req[w].username
                 /\ u.email = req[w].email
                 /\ u.role = "user"
                 /\ check_password(u.password_hash, req[w].password)
                        = [raised |-> "", value |-> TRUE]
                 /\ resp'.access_token.user_id = u.id
                 /\ resp'.refresh_token.user_id = u.id
      ]_vars

\* worker w takes up a request to the route in this step and answers it at once
Answers(w, route) ==
    /\ pc[w] = "idle" /\ pc' = pc /\ served' = served + 1
    /\ resp'.route = route

\* a response without tokens
NoTokens(r) == r.access_token = NoToken /\ r.refresh_token = NoToken

\* C11: a sign-in with both fields present is answered 404 without tokens when
\* no stored user has the identifier as username or as email, 400 without
\* tokens when one has but the password does not hash to its stored hash, and
\* otherwise 200 with the id of that user and an access and a refresh token
\* that verify to that id, in every state in which a sign-in is handled; a
\* sign-in leaves the users table and the blacklist as they were
C11_SignInContract ==
    [][\A w \in Workers :
        Answers(w, "/signin") =>
          /\ users' = users
          /\ blacklist' = blacklist
          /\ resp'.status \in {200, 400, 404}
          /\ resp'.status # 200 => (NoTokens(resp') /\ issued' = issued)
          /\ resp'.status = 200 =>
                /\ \E u \in users : u.id = resp'.user_id
                /\ verify_token(resp'.access_token, now).user_id = resp'.user_id
                /\ verify_token(resp'.refresh_token, now).user_id = resp'.user_id
                /\ issued' = issued \cup {resp'.access_token, resp'.refresh_token}
          /\ \A data \in SignInBodies :
             \A user \in query_first(find_by_username_or_email(users,
                                                             data.username_or_email)) :
               data.keys = SignInKeys =>
                 LET r == sign_in_response(data, user, now)
                     holders == {u \in users :
                                    \/ u.username = data.username_or_email
                                    \/ email_str(u.email) = data.username_or_email}
                     verifies == hashpw(data.password, user.password_hash.salt)
                                    = user.password_hash
                 IN  /\ holders = {} => (r.status = 404 /\ NoTokens(r))
                     /\ (holders # {} /\ ~verifies) =>
                           (r.status = 400 /\ NoTokens(r))
                     /\ (holders # {} /\ verifies) =>
                           /\ r.status = 200
                           /\ user \in holders
                           /\ r.user_id = user.id
                           /\ r.access_token # r.refresh_token
                           /\ verify_token(r.access_token, now).user_id = user.id
                           /\ verify_token(r.refresh_token, now).user_id = user.id
      ]_vars

\* a user who signed up earlier has signed in after the clock moved on and was
\* given new tokens for the same id
C11_Witness ==
    /\ resp.route = "/signin"
    /\ resp.status = 200
    /\ now > 0
    /\ \E u \in users :
         /\ u.id = resp.user_id
         /\ resp.access_token = generate_token(u.id, now)
         /\ generate_token(u.id, 0) \in issued

\* C12, as claimed: a /refresh request without a refresh token is answered 400,
\* one with an expired token 401, one with a token that is not signed by the
\* server 403, one with a verifying unexpired token of an unknown subject 401,
\* and every other one 200 with a new access token of the presented token's
\* subject; an access token is handed out with the 200 only
C12_RefreshStatuses ==
    [][\A w \in Workers :
        Answers(w, "/refresh") =>
          LET presented == resp'.token
              stored == \E u \in users : u.id = presented.user_id
          IN  /\ presented = NoToken => resp'.status = 400
              /\ (presented # NoToken /\ ~SignedByServer(presented)) =>
                    resp'.status = 403
              /\ (SignedByServer(presented) /\ presented.exp <= now) =>
                    resp'.status = 401
              /\ (SignedByServer(presented) /\ presented.exp > now /\ ~stored) =>
                    resp'.status = 401
              /\ (SignedByServer(presented) /\ presented.exp > now /\ stored) =>
                    /\ resp'.status = 200
                    /\ verify_token(resp'.access_token, now).user_id
                          = presented.user_id
              /\ resp'.status # 200 =>
                    (resp'.access_token = NoToken /\ issued' = issued)
      ]_vars

\* the body of a /refresh request that presents the token
Presenting(token) == [json |-> TRUE, has_key |-> TRUE, token |-> token]

\* C13: a /refresh request, whatever its answer, leaves the blacklist and the
\* users table as they were, and a token answered 200 would be answered 200
\* again right after; every issued token that has not expired and whose subject
\* is stored is answered 200 with an access token of its subject, however often
\* it was presented before and whatever the blacklist holds
C13_RefreshKeepsTokenUsable ==
    [][/\ \A w \in Workers :
            Answers(w, "/refresh") =>
              /\ users' = users
              /\ blacklist' = blacklist
              /\ resp'.status = 200 =>
                    refresh_response(Presenting(resp'.token), users', blacklist',
                                     now').status = 200
       /\ \A token \in issued :
            (token.exp > now /\ \E u \in users : u.id = token.user_id) =>
              LET r == refresh_response(Presenting(token), users, blacklist, now)
              IN  /\ r.status = 200
                  /\ verify_token(r.access_token, now).user_id = token.user_id
      ]_vars

\* the refresh token of a sign-up at second 0 is answered 200 at the second
\* ACCESS_TTL with a new access token, when an access token of the same user
\* minted one second earlier is already out
C13_Witness ==
    /\ resp.route = "/refresh"
    /\ resp.status = 200
    /\ now = ACCESS_TTL
    /\ resp.token = generate_refresh_token(resp.token.user_id, 0)
    /\ resp.access_token = generate_token(resp.token.user_id, now)
    /\ generate_token(resp.token.user_id, now - 1) \in issued

\* C14: logout adds the token string of the Authorization header to the
\* blacklist and nothing else; right after a logout every unexpired token
\* issued to the same user, the refresh token of the same sign-up among them,
\* is still answered 200 with a new access token by /refresh
C14_LogoutRevokesHeaderTokenOnly ==
    [][\A w \in Workers :
        (pc[w] = "logout" /\ pc'[w] = "idle") =>
          /\ resp'.status = 200
          /\ blacklist' = blacklist \cup {req[w].token}
          /\ \A token \in issued' :
               (token.user_id = req[w].user_id /\ token.exp > now') =>
                 LET r == refresh_response(Presenting(token), users', blacklist', now')
                 IN  /\ r.status = 200
                     /\ r.access_token # NoToken
                     /\ r.access_token.user_id = req[w].user_id
      ]_vars

\* the access token of an issuance is in the blacklist and /refresh has just
\* answered the refresh token of the same issuance with a 200
C14_Witness ==
    /\ resp.route = "/refresh"
    /\ resp.status = 200
    /\ resp.access_token # NoToken
    /\ \E t \in Instants :
         /\ resp.token = generate_refresh_token(resp.token.user_id, t)
         /\ generate_token(resp.token.user_id, t) \in blacklist

\* the six rules in the order of their messages, each with whether the
\* password violates it
PasswordRules(p) ==
    << [message |-> "Password must be at least 8 characters long",
        violated |-> Len(p) \in 0..7],
       [message |-> "Password should not be more than 20 characters long",
        violated |-> Len(p) \notin 0..20],
       [message |-> "Password must contain at least one digit",
        violated |-> {i \in DOMAIN p : p[i] \in 48..57} = {}],
       [message |-> "Password must contain at least one uppercase letter",
        violated |-> {i \in DOMAIN p : p[i] \in 65..90} = {}],
       [message |-> "Password must contain at least one lowercase letter",
        violated |-> {i \in DOMAIN p : p[i] \in 97..122} = {}],
       [message |-> "Password must contain at least one special symbol",
        violated |-> {i \in DOMAIN p : p[i] \in {33, 64, 35, 36, 37, 94, 38, 42, 45}} = {}] >>

\* C15: validate_password returns (val, errors) where errors holds the message
\* of each violated rule once and no message of a satisfied rule, in the order
\* minimum length, maximum length, digit, uppercase, lowercase, symbol; val is
\* true exactly when errors is empty; a length of 8 or of 20 violates no length
\* rule; a second call on the same password returns the same pair
C15_ValidatePasswordReportsEveryRule ==
    /\ call.op \in {"validate_password", "validate_password again"} =>
         LET p == call.password
             errors == call.result.errors
             rules == PasswordRules(p)
             at(k) == {j \in DOMAIN errors : errors[j] = rules[k].message}
         IN  /\ \A k \in 1..6 :
                  Cardinality(at(k)) = IF rules[k].violated THEN 1 ELSE 0
             /\ \A j \in DOMAIN errors : \E k \in 1..6 : j \in at(k)
             /\ \A k1 \in 1..6 : \A k2 \in 1..6 :
                  \A j1 \in at(k1) : \A j2 \in at(k2) : k1 < k2 => j1 < j2
             /\ call.result.val <=> (errors = <<>>)
             /\ Len(p) \in {MIN_PASSWORD_LEN, MAX_PASSWORD_LEN} =>
                  (at(1) = {} /\ at(2) = {})
    /\ call.op = "validate_password again" => call.again = call.result

\* a password of exactly 8 characters with letters of both cases, without a
\* digit and without a symbol, was given the two messages of the rules it
\* violates, in their order, on both calls
C15_Witness ==
    /\ call.op = "validate_password again"
    /\ Len(call.password) = MIN_PASSWORD_LEN
    /\ ~call.result.val
    /\ call.result.errors = <<"Password must contain at least one digit",
                              "Password must contain at least one special symbol">>
    /\ call.again = call.result

\* C16, as claimed: validate_password("short1A!") returns invalid with the
\* message of the minimum length, and validate_password("GoodPass1!") returns
\* valid with no errors
C16_ShortExampleRejected ==
    /\ (call.op = "validate_password" /\ call.password = Str_short1A) =>
          /\ ~call.result.val
          /\ \E j \in DOMAIN call.result.errors :
               call.result.errors[j] = "Password must be at least 8 characters long"
    /\ (call.op = "validate_password" /\ call.password = Str_GoodPass) =>
          (call.result.val /\ call.result.errors = <<>>)

\* C16, amended: "short1A!" has exactly 8 characters, a digit, an uppercase and
\* a lowercase letter and a symbol, so validate_password("short1A!") returns
\* valid with no errors, as validate_password("GoodPass1!") does; the 7
\* characters "short1A" are answered invalid with the message of the minimum
\* length
C16_ShortExampleAccepted ==
    /\ (call.op = "validate_password" /\ call.password = Str_short1A) =>
          (call.result.val /\ call.result.errors = <<>>)
    /\ (call.op = "validate_password" /\ call.password = Str_GoodPass) =>
          (call.result.val /\ call.result.errors = <<>>)
    /\ (call.op = "validate_password" /\ call.password = Str_7chars) =>
          /\ ~call.result.val
          /\ \E j \in DOMAIN call.result.errors :
               call.result.errors[j] = "Password must be at least 8 characters long"

\* validate_password was applied to "short1A!" and accepted it
C16_Witness ==
    /\ call.op = "validate_password"
    /\ call.password = Str_short1A
    /\ Len(call.password) = MIN_PASSWORD_LEN
    /\ call.result = [val |-> TRUE, errors |-> <<>>]

\* a stored hash that is not of the form bcrypt.hashpw gives
Malformed(password_hash) == password_hash.digest[1] # "bcrypt"

\* C17, as claimed: a sign-in that finds a credential whose stored hash is
\* malformed is answered with the wrong-password response, 400 "Password
\* validation failed", without tokens, because check_password returns false
\* instead of raising
C17_MalformedHashFailsClosed ==
    (/\ resp.route = "/signin"
     /\ resp.message # "User not found"
     /\ resp.message # "Missing required fields: 'username_or_email' or 'password'"
     /\ \A u \in users : Malformed(u.password_hash)) =>
        /\ resp.status = 400
        /\ resp.message = "Password validation failed"
        /\ NoTokens(resp)

\* C18, as claimed: every response the service sends carries one of the
\* documented status codes 200, 201, 400, 401, 403 and 404; no request ends in
\* an exception that leaves its handler (answered by the framework with 500)
C18_OnlyDocumentedStatuses ==
    resp # NoResp => resp.status \in {200, 201, 400, 401, 403, 404}

\* C19: over the calls of one process the resolver is asked at most once per
\* domain; MX_DNS_CACHE holds an entry for exactly the domains it was asked
\* about, and the entry is what it gave that first time, the negative entry
\* when it gave no records; every call of get_mx_records returns the entry of
\* its domain; and validate_email_address with check_mx returns False for a
\* domain whose entry is negative
C19_ResolverAskedOncePerDomain ==
    /\ \A d \in Domains :
         /\ call.queries[d] <= 1
         /\ call.queries[d] = 1 <=> MX_DNS_CACHE[d] # "absent"
         /\ MX_DNS_CACHE[d] = call.first[d]
    /\ call.op = "get_mx_records" =>
         /\ call.value = MX_DNS_CACHE[call.domain]
         /\ call.value = call.first[call.domain]
    /\ (/\ call.op = "validate_email_address"
        /\ call.domain \in Domains
        /\ MX_DNS_CACHE[call.domain] = "None") => ~call.valid

\* a domain whose first lookup failed was looked up again, at least three
\* calls in all: the resolver was asked once, the negative entry was returned,
\* and the other domain has its records cached
C19_Witness ==
    /\ call.op = "get_mx_records"
    /\ call.calls >= 3
    /\ call.value = "None"
    /\ call.queries[call.domain] = 1
    /\ \E d \in Domains : d # call.domain /\ MX_DNS_CACHE[d] = "records"

\* C20: the gate tests presence, signature, expiry, blacklist and subject in
\* this order and answers with the first test that fails: no token, 403
\* missing; a token not signed by the server, 403 invalid, blacklisted or not;
\* a signed token at or after its expiry, 403 expired, blacklisted or not; a
\* signed unexpired token in the blacklist, 403 blacklisted, whether or not its
\* subject is stored; one not in the blacklist whose subject is not stored,
\* 404; and only a token that passes all five reaches the handler
C20_GateOrder ==
    [][\A w \in Workers :
        /\ (Answers(w, "/logout") /\ resp'.token = NoToken) =>
              (resp'.status = 403 /\ resp'.message = "Token is missing!")
        /\ (Answers(w, "/logout") /\ resp'.token # NoToken) =>
              IF ~SignedByServer(resp'.token)
              THEN resp'.status = 403 /\ resp'.message = "Token is invalid!"
              ELSE /\ resp'.token.exp <= now
                   /\ resp'.status = 403
                   /\ resp'.message = "Token has expired!"
        /\ GatePassesDecode(w) =>
              (SignedByServer(req'[w].token) /\ req'[w].token.exp > now)
        /\ (pc[w] = "gate_check" /\ pc'[w] # pc[w]) =>
              IF req[w].token \in blacklist
              THEN /\ pc'[w] = "idle"
                   /\ resp'.status = 403
                   /\ resp'.message = "Token has been blacklisted!"
              ELSE IF ~\E u \in users : u.id = req[w].token.user_id
              THEN /\ pc'[w] = "idle"
                   /\ resp'.status = 404
                   /\ resp'.message = "User not found!"
              ELSE pc'[w] = "logout"
      ]_vars

\* a signed, unexpired token that is in the blacklist and whose subject is no
\* longer stored was answered with the blacklisted reason
C20_Witness ==
    /\ resp.status = 403
    /\ resp.message = "Token has been blacklisted!"
    /\ resp.token \in blacklist
    /\ resp.token.exp > now
    /\ ~\E u \in users : u.id = resp.token.user_id

\* a token string that generate_refresh_token gives for its subject at some
\* instant of the clock
IssuedAsRefreshToken(token) ==
    \E t \in Instants : token = generate_refresh_token(token.user_id, t)

\* a token string that generate_token gives for its subject at some instant of
\* the clock
IssuedAsAccessToken(token) ==
    \E t \in Instants : token = generate_token(token.user_id, t)

\* C21: access and refresh tokens are not interchangeable: the gate never hands
\* a request to the wrapped handler on a bearer token that
\* generate_refresh_token issued, and /refresh answers 200 with a new access
\* token only to a token that generate_refresh_token issued, never to one that
\* generate_token issued
C21_TokensNotInterchangeable ==
    [][\A w \in Workers :
        /\ HandlerInvoked(w) => ~IssuedAsRefreshToken(req[w].token)
        /\ (Answers(w, "/refresh") /\ resp'.status = 200) =>
              /\ IssuedAsRefreshToken(resp'.token)
              /\ ~IssuedAsAccessToken(resp'.token)
      ]_vars

\* worker w takes up a POST /signup in this step
SignUpTaken(w) ==
    /\ pc[w] = "idle" /\ served' = served + 1
    /\ \/ Answers(w, "/signup")
       \/ pc'[w] = "sign_up_save"

\* worker w ends a POST /signup that passed the four checks
SignUpEnds(w) == pc[w] = "sign_up_save" /\ pc'[w] = "idle"

\* C22: sign-up checks required fields, then the email address, then the
\* password, then the duplicate user, and the first check that fails gives the
\* response, so a body with an invalid email and an invalid password gets the
\* invalid-email response; a rejected sign-up leaves the users table as it was
\* and hands out no token; a row is added, with the hash of the password, only
\* by a request that passed the four checks
C22_SignUpCheckOrder ==
    [][/\ \A w \in Workers :
          /\ SignUpTaken(w) =>
               \A data \in SignUpBodies :
               \A lib_ok \in email_validator_outcomes(data.email) :
               \A answer \in resolve_outcomes(data.email.domain) :
                 LET c == sign_up_checks(data, users, MX_DNS_CACHE, lib_ok, answer)
                     missing == ~data.json \/ data.keys # AllKeys
                     email_ok == validate_email_address(data.email, MX_DNS_CACHE,
                                                        lib_ok, answer).valid
                     password_ok == validate_password(data.password).val
                     duplicate == \E u \in users : \/ u.username = data.username
                                                   \/ u.email = data.email
                 IN  /\ missing =>
                          (c.done /\ c.message =
                             "Missing required fields: 'username', 'email' or 'password'")
                     /\ (~missing /\ ~email_ok) =>
                          (c.done /\ c.message = "Invalid email address")
                     /\ (~missing /\ email_ok /\ ~password_ok) =>
                          (c.done /\ c.message = "Password validation failed")
                     /\ (~missing /\ email_ok /\ password_ok /\ duplicate) =>
                          (c.done /\ c.message =
                             "User with this email or username already exists")
                     /\ (~missing /\ email_ok /\ password_ok /\ ~duplicate) => ~c.done
          /\ Answers(w, "/signup") =>
               /\ resp'.status # 201
               /\ users' = users /\ next_id' = next_id /\ issued' = issued
               /\ NoTokens(resp')
          /\ (pc[w] = "idle" /\ pc'[w] = "sign_up_save") =>
               /\ is_valid_format(req'[w].email)
               /\ validate_password(req'[w].password).val
               /\ ~user_exists(users, req'[w].username, req'[w].email)
               /\ users' = users /\ issued' = issued
          /\ SignUpEnds(w) =>
               \/ /\ resp'.status = 201
                  /\ \E salt \in Salts :
                       users' = users \cup {User(next_id, req[w].username, req[w].email,
                                                 req[w].password, "user", salt)}
               \/ /\ resp'.status # 201
                  /\ users' = users /\ issued' = issued
                  /\ NoTokens(resp')
       /\ users' # users => \E w \in Workers : SignUpEnds(w)
      ]_vars

\* with a user stored, a sign-up is answered with the invalid-email response,
\* which is the response sign_up gives here to a body whose email address and
\* password are both invalid
C22_Witness ==
    /\ resp.route = "/signup"
    /\ resp.message = "Invalid email address"
    /\ users # {}
    /\ NoTokens(resp)
    /\ \E data \in SignUpBodies :
         /\ data.keys = AllKeys
         /\ ~is_valid_format(data.email)
         /\ ~validate_password(data.password).val
         /\ sign_up_checks(data, users, MX_DNS_CACHE, TRUE, "records").message
              = resp.message

\* the row of the user with the id, in the table
RowOf(table, id) == CHOOSE u \in table : u.id = id

\* C23: change_password replaces the stored hash of current_user only when the
\* supplied current password verifies against the stored hash, the new
\* password passes validate_password and the new password does not verify
\* against the stored hash; in every other case the table is left as it was;
\* when the three hold for a body with all its fields the hash is replaced by
\* the hash of the new password, also when the new password verifies against a
\* hash that was replaced earlier; no other row changes
C23_HashReplacedOnlyWhen ==
    [][served' = served + 1 =>
         LET data == call'.data
             old == RowOf(users, call'.user_id).password_hash
             new == RowOf(users', call'.user_id).password_hash
             verifies(p) == hashpw(p, old.salt) = old
             allowed == /\ data.json
                        /\ {"password", "new_password"} \subseteq data.keys
                        /\ verifies(data.password)
                        /\ validate_password(data.new_password).val
                        /\ ~verifies(data.new_password)
         IN  /\ {u.id : u \in users'} = {u.id : u \in users}
             /\ \A u \in users : u.id # call'.user_id => u \in users'
             /\ new # old =>
                  /\ allowed
                  /\ new = hashpw(data.new_password, new.salt)
                  /\ resp'.message = "Password updated successfully."
             /\ ~allowed => users' = users
             /\ (allowed /\ data.keys = ProfileKeys) =>
                  /\ new # old
                  /\ new = hashpw(data.new_password, new.salt)
      ]_vars

\* a user has changed the password back to one that an earlier call replaced
C23_Witness ==
    /\ resp.route = "/change_password"
    /\ resp.message = "Password updated successfully."
    /\ RowOf(users, call.user_id).password_hash \in call.replaced
    /\ RowOf(users, call.user_id).password_hash
         = hashpw(call.data.new_password, "salt1")

\* C24: change_password replaces the stored hash only when new_password and
\* confirm_new_password are equal; a request whose confirm_new_password
\* differs from new_password is rejected and leaves the table as it was
C24_ConfirmationMustMatch ==
    [][(/\ served' = served + 1
        /\ call'.data.keys = ProfileKeys
        /\ call'.data.confirm_new_password # call'.data.new_password) =>
          /\ users' = users
          /\ resp'.message # "Password updated successfully."
      ]_vars

\* C25: an access token that sign-up, sign-in or /refresh hands out is not in
\* the blacklist when it is returned, so the logout of one session does not
\* revoke a token of another sign-in or refresh of the same user, also when
\* the two are issued in the same second
C25_IssuedTokenNotRevoked ==
    [][\A w \in Workers :
        (/\ \/ SignUpEnds(w)
            \/ Answers(w, "/signin")
            \/ Answers(w, "/refresh")
         /\ resp'.access_token # NoToken) =>
            resp'.access_token \notin blacklist'
      ]_vars

\* C26: in every table that sign-up builds, a sign-in identifier matches at
\* most one row: no user's username is another user's email address, so
\* find_by_username_or_email has at most one candidate
C26_IdentifierMatchesOneUser ==
    /\ \A u \in users : \A v \in users :
         u # v => u.username # email_str(v.email)
    /\ \A identifier \in Identifiers :
         Cardinality(find_by_username_or_email(users, identifier)) <= 1

\* worker w runs logout(current_user) in this step
LogoutRuns(w) == pc[w] = "logout" /\ pc'[w] = "idle"

\* C27: the blacklist grows only by a logout that the gate let through, and by
\* the very string the gate checked for that request: the gate found its
\* signature good and its expiry ahead when it decoded it, and found it outside
\* the blacklist and its subject stored when it checked it; so every string in
\* the blacklist is a token the server signed for a stored user; a logout
\* request that the gate refuses leaves the blacklist as it was
C27_BlacklistHoldsGateAcceptedTokens ==
    [][/\ \A w \in Workers :
          /\ GatePassesDecode(w) =>
               /\ req'[w].token # NoToken
               /\ SignedByServer(req'[w].token)
               /\ req'[w].token.exp > now
               /\ blacklist' = blacklist
          /\ HandlerInvoked(w) =>
               /\ req'[w] = req[w]
               /\ req[w].token \notin blacklist
               /\ \E u \in users : u.id = req[w].token.user_id
               /\ blacklist' = blacklist
          /\ pc'[w] = "logout" =>
               /\ pc[w] \in {"gate_check", "logout"}
               /\ req'[w] = req[w]
          /\ LogoutRuns(w) =>
               /\ blacklist' = blacklist \cup {req[w].token}
               /\ resp'.token = req[w].token
               /\ SignedByServer(req[w].token)
               /\ \E u \in users : u.id = req[w].token.user_id
          /\ (GateRefusesAtDecode(w) \/ GateRefusesAtCheck(w)) =>
               blacklist' = blacklist
       /\ blacklist' # blacklist => \E w \in Workers : LogoutRuns(w)
       /\ \A token \in blacklist' :
            /\ SignedByServer(token)
            /\ token \in issued'
            /\ \E u \in users' : u.id = token.user_id
      ]_vars

\* a logout has just put the token of its header, unexpired and the only one
\* revoked so far, into the blacklist
C27_Witness ==
    /\ resp.route = "/logout"
    /\ resp.status = 200
    /\ blacklist = {resp.token}
    /\ SignedByServer(resp.token)
    /\ resp.token.exp > now

====
